---- MODULE Spec2Model ----
(***************************************************************************)
(* Model of server.js: the users.json record store (initializeUsersFile,   *)
(* readUsers, writeUsers), the credential helpers (hashPassword,           *)
(* verifyPassword, validateEmail) and the four account routes (signup,     *)
(* login, preferences, users/:id).  Every route handler is synchronous, so *)
(* each handler is one atomic action: load, validate, mutate, save, reply. *)
(***************************************************************************)
EXTENDS Integers, Sequences, FiniteSets, TLC

VARIABLES
  file,      \* users.json on disk: absent, unparseable text, or a JSON document
  started,   \* TRUE once app.listen's callback has run initializeUsersFile
  res,       \* the last step taken and the HTTP response it produced
  load,      \* what the last handler's readUsers saw, returned and left on disk
  prefDone   \* history: ids for which a preferences update has returned success

vars == <<file, started, res, load, prefDone>>

(***************************************************************************)
(* Bounds of the model and constants of the program.                       *)
(***************************************************************************)
MaxUsers == 2

MinPasswordLength == 8

DefaultMinRating == 3

InitialNextId == 1

(***************************************************************************)
(* JavaScript values as they arrive in a parsed JSON body: a missing field *)
(* is undefined, the others carry their type.                              *)
(***************************************************************************)
Undefined == [t |-> "undefined"]

Str(s) == [t |-> "str", v |-> s]

Num(n) == [t |-> "num", v |-> n]

Arr(a) == [t |-> "arr", v |-> a]

\* !x : undefined, the empty string and 0 are falsy; arrays are truthy.
Falsy(x) ==
  \/ x.t = "undefined"
  \/ x.t = "str" /\ x.v = ""
  \/ x.t = "num" /\ x.v = 0

\* Array.isArray(x)
IsArray(x) == x.t = "arr"

CharAt(s, i) == SubSeq(s, i, i)

(***************************************************************************)
(* validateEmail: /^[^\s@]+@[^\s@]+\.[^\s@]+$/ .test(email)                *)
(***************************************************************************)
NoSpaceOrAt(s, a, b) == \A i \in a..b : CharAt(s, i) \notin {" ", "@"}

validateEmail(email) ==
  LET s == email.v
      n == Len(s)
  IN  \E p \in 2..n :
        /\ CharAt(s, p) = "@"
        /\ NoSpaceOrAt(s, 1, p - 1)
        /\ \E q \in (p + 2)..(n - 1) :
              /\ CharAt(s, q) = "."
              /\ NoSpaceOrAt(s, p + 1, q - 1)
              /\ NoSpaceOrAt(s, q + 1, n)

(***************************************************************************)
(* hashPassword / verifyPassword: bcrypt keeps the salt inside the hash    *)
(* and compareSync re-hashes the candidate with that salt.  The digest is  *)
(* modelled as collision free.                                             *)
(***************************************************************************)
BcryptHash(password, salt) == [salt |-> salt, digest |-> <<salt, password.v>>]

hashPassword(password, salt) == BcryptHash(password, salt)

verifyPassword(password, hash) == BcryptHash(password, hash.salt) = hash

(***************************************************************************)
(* parseInt: the longest prefix of decimal digits, NaN (the empty          *)
(* sequence here) when there is none; a number is first turned to text, so *)
(* a non-negative integer parses to itself.                                *)
(***************************************************************************)
Digits == <<"0", "1", "2", "3", "4", "5", "6", "7", "8", "9">>

IsDigit(c) == \E d \in 1..Len(Digits) : Digits[d] = c

DigitValue(c) == (CHOOSE d \in 1..Len(Digits) : Digits[d] = c) - 1

DigitPrefixLen(s) ==
  IF \A i \in 1..Len(s) : IsDigit(CharAt(s, i)) THEN Len(s)
  ELSE (CHOOSE i \in 1..Len(s) :
          /\ ~IsDigit(CharAt(s, i))
          /\ \A j \in 1..(i - 1) : IsDigit(CharAt(s, j))) - 1

RECURSIVE DecimalValue(_, _)
DecimalValue(s, k) ==
  IF k = 0 THEN 0 ELSE 10 * DecimalValue(s, k - 1) + DigitValue(CharAt(s, k))

parseInt(x) ==
  IF x.t = "num" THEN <<x.v>>
  ELSE IF x.t = "str" /\ DigitPrefixLen(x.v) > 0
       THEN <<DecimalValue(x.v, DigitPrefixLen(x.v))>>
       ELSE <<>>

(***************************************************************************)
(* The record store.                                                       *)
(***************************************************************************)
Absent == [kind |-> "absent"]

Garbage == [kind |-> "garbage"]

\* JSON.stringify(data, null, 2)
JsonStringify(data) == [kind |-> "json", doc |-> data]

EmptyStore == [users |-> <<>>, nextId |-> InitialNextId]

\* fs.existsSync(usersFilePath)
ExistsSync(f) == f.kind # "absent"

\* initializeUsersFile: the file after the call
initializeUsersFile(f) ==
  IF ~ExistsSync(f) THEN JsonStringify(EmptyStore) ELSE f

\* readUsers as it would be if it created the missing file itself
readUsersPersisting(f) ==
  [data |-> IF f.kind = "json" THEN f.doc ELSE EmptyStore,
   disk |-> IF f.kind = "absent" THEN JsonStringify(EmptyStore) ELSE f]

\* readUsers: the value returned and the file the call leaves on disk.  A
\* missing file makes readFileSync throw and unparseable text makes
\* JSON.parse throw; both are caught.
readUsers(f) ==
  [data |-> IF f.kind = "json" THEN f.doc ELSE EmptyStore,
   disk |-> f]

\* writeUsers: the file after the call
writeUsers(data) == JsonStringify(data)

(***************************************************************************)
(* Responses.  The user-facing messages are the source's, in ASCII.        *)
(***************************************************************************)
MsgInvalidName == "Vui long nhap ho va ten"

MsgInvalidEmail == "Email khong hop le"

MsgWeakPassword == "Mat khau phai co it nhat 8 ky tu"

MsgPasswordMismatch == "Mat khau khong khop"

MsgEmailTaken == "Email nay da duoc dang ky"

MsgSignupOk == "Tai khoan duoc tao thanh cong!"

MsgMissingCredentials == "Vui long nhap email va mat khau"

MsgInvalidCredentials == "Email hoac mat khau khong dung"

MsgLoginOk == "Dang nhap thanh cong!"

MsgMissingUserId == "Thieu userId"

MsgUserNotFound == "User khong tim thay"

MsgPreferencesOk == "Preferences da duoc cap nhat!"

\* res.status(status).json({ success: false, message })
Failure(op, status, message) ==
  [op |-> op, status |-> status,
   body |-> [success |-> FALSE, message |-> message]]

\* users.find / users.findIndex: the first index whose record passes the
\* test (hits[i] is the test's answer for record i), 0 when there is none
FirstIndex(hits) ==
  IF \E i \in 1..Len(hits) : hits[i]
  THEN CHOOSE i \in 1..Len(hits) : hits[i] /\ \A j \in 1..(i - 1) : ~hits[j]
  ELSE 0

\* the probe of a handler's readUsers call; NoLoad when the handler replied
\* before reaching it
NoLoad == [called |-> FALSE]

LoadProbe(f, rd) ==
  [called |-> TRUE,
   found |-> f.kind,                  \* what was on disk at the call
   count |-> Len(rd.data.users),      \* the returned store: its records
   nextId |-> rd.data.nextId,         \*   and its counter
   left |-> rd.disk.kind,             \* what is on disk after the call
   untouched |-> rd.disk = f]

(***************************************************************************)
(* Environment draws and request bodies.                                   *)
(***************************************************************************)
\* What the environment hands a successful signup: the salt drawn by
\* bcrypt.genSaltSync(10) and the clock read by new Date().toISOString().
Draws == {[salt |-> "saltA", now |-> "T1"], [salt |-> "saltB", now |-> "T2"]}

\* addresses that pass validateEmail; two differ only in case
ValidEmails == {Str("ana@x.com"), Str("bob@x.com"), Str("Ana@x.com")}

InvalidEmails == {Undefined, Str(""), Str("not-an-email"), Str("a b@x.com"),
                  Str("ana@x"), Str("a@@x.com")}

\* bodies that reach the store: every check on the body passes.  The phone
\* number is optional: one caller leaves it out.
GoodSignupBodies ==
  { [firstName |-> Str("Ana"), lastName |-> Str("Lee"), email |-> e,
     phone |-> IF e = Str("bob@x.com") THEN Undefined ELSE Str("555"),
     password |-> Str("pass1234"), confirmPassword |-> Str("pass1234")] :
    e \in ValidEmails }

\* bodies that break one or several of the checks on the body
BadSignupBodies ==
  { b \in [firstName : {Undefined, Str("Ana")},
           lastName : {Str("Lee")},
           email : {Str("not-an-email"), Str("ana@x.com")},
           phone : {Undefined},
           password : {Undefined, Str("pass123"), Str("pass1234")},
           confirmPassword : {Str("pass123"), Str("pass1234")}] :
      \/ b.firstName = Undefined
      \/ b.email # Str("ana@x.com")
      \/ b.password # Str("pass1234")
      \/ b.confirmPassword # b.password }
    \cup [firstName : {Str("Ana")}, lastName : {Str("")},
          email : {Undefined, Str("ana@x.com")}, phone : {Undefined},
          password : {Str("pass123"), Str("pass1234")},
          confirmPassword : {Str("pass1234")}]
    \cup [firstName : {Str("Ana")}, lastName : {Str("Lee")},
          email : InvalidEmails, phone : {Undefined},
          password : {Str("pass1234")}, confirmPassword : {Str("pass1234")}]

SignupBodies == GoodSignupBodies \cup BadSignupBodies

(***************************************************************************)
(* POST /api/auth/signup                                                   *)
(***************************************************************************)
\* the checks with the length test off by one (<= for <)
SignupBodyErrorOffByOne(body) ==
  IF Falsy(body.firstName) \/ Falsy(body.lastName) THEN MsgInvalidName
  ELSE IF Falsy(body.email) \/ ~validateEmail(body.email) THEN MsgInvalidEmail
  ELSE IF Falsy(body.password) \/ Len(body.password.v) <= MinPasswordLength
       THEN MsgWeakPassword
  ELSE IF body.password # body.confirmPassword THEN MsgPasswordMismatch
  ELSE ""

\* The checks made on the body alone, in the handler's order: the message
\* of the first that fails, "" if none does.
SignupBodyError(body) ==
  IF Falsy(body.firstName) \/ Falsy(body.lastName) THEN MsgInvalidName
  ELSE IF Falsy(body.email) \/ ~validateEmail(body.email) THEN MsgInvalidEmail
  ELSE IF Falsy(body.password) \/ Len(body.password.v) < MinPasswordLength
       THEN MsgWeakPassword
  ELSE IF body.password # body.confirmPassword THEN MsgPasswordMismatch
  ELSE ""

\* the test made against the newest record only
EmailTakenByNewest(data, email) ==
  /\ Len(data.users) > 0
  /\ data.users[Len(data.users)].email = email

\* data.users.some(u => u.email === email)
EmailTaken(data, email) ==
  \E i \in 1..Len(data.users) : data.users[i].email = email

\* the record with the counter bumped before it is read
NewUserIdAhead(body, data, salt, now) ==
  [id |-> data.nextId + 1,
   firstName |-> body.firstName,
   lastName |-> body.lastName,
   email |-> body.email,
   phone |-> IF Falsy(body.phone) THEN Str("") ELSE body.phone,
   password |-> hashPassword(body.password, salt),
   preferences |-> Arr(<<>>),
   dietaryRestrictions |-> Arr(<<>>),
   cuisineTypes |-> Arr(<<>>),
   priceRange |-> Str(""),
   minRating |-> Num(DefaultMinRating),
   hasPreferences |-> FALSE,
   createdAt |-> now]

NewUser(body, data, salt, now) ==
  [id |-> data.nextId,
   firstName |-> body.firstName,
   lastName |-> body.lastName,
   email |-> body.email,
   phone |-> IF Falsy(body.phone) THEN Str("") ELSE body.phone,
   password |-> hashPassword(body.password, salt),
   preferences |-> Arr(<<>>),
   dietaryRestrictions |-> Arr(<<>>),
   cuisineTypes |-> Arr(<<>>),
   priceRange |-> Str(""),
   minRating |-> Num(DefaultMinRating),
   hasPreferences |-> FALSE,
   createdAt |-> now]

\* the push without the increment
PushUserNoIncrement(data, newUser) ==
  [users |-> Append(data.users, newUser), nextId |-> data.nextId]

\* data.users.push(newUser); data.nextId += 1
PushUser(data, newUser) ==
  [users |-> Append(data.users, newUser), nextId |-> data.nextId + 1]

SignupCreated(newUser) ==
  [op |-> "signup", status |-> 201,
   body |-> [success |-> TRUE, message |-> MsgSignupOk, userId |-> newUser.id]]

\* The whole handler on file f with the environment's draw d: the response,
\* the file it leaves and the probe of its readUsers call.
SignupResult(body, f, d) ==
  IF SignupBodyError(body) # ""
  THEN [res |-> Failure("signup", 400, SignupBodyError(body)),
        file |-> f, load |-> NoLoad]
  ELSE LET rd == readUsers(f)
           newUser == NewUser(body, rd.data, d.salt, d.now)
       IN  IF EmailTaken(rd.data, body.email)
           THEN [res |-> Failure("signup", 400, MsgEmailTaken),
                 file |-> rd.disk, load |-> LoadProbe(f, rd)]
           ELSE [res |-> SignupCreated(newUser),
                 file |-> writeUsers(PushUser(rd.data, newUser)),
                 load |-> LoadProbe(f, rd)]

\* the handler reaches the lines that build a record
SignupCreates(body, f) ==
  /\ SignupBodyError(body) = ""
  /\ ~EmailTaken(readUsers(f).data, body.email)

\* the handler draws a salt and reads the clock only when it creates a record
SignupDraws(body, f) ==
  IF SignupCreates(body, f) THEN Draws ELSE {CHOOSE d \in Draws : TRUE}

Signup(body) ==
  /\ started
  /\ \E d \in SignupDraws(body, file) :
       \E r \in {SignupResult(body, file, d)} :
           /\ SignupCreates(body, file) => readUsers(file).data.nextId <= MaxUsers
           /\ res' = r.res
           /\ file' = r.file
           /\ load' = r.load
  /\ UNCHANGED <<started, prefDone>>

(***************************************************************************)
(* POST /api/auth/login                                                    *)
(***************************************************************************)
LoginBodies ==
  [email : {Undefined, Str("zed@x.com")} \cup ValidEmails,
   password : {Undefined, Str("pass1234"), Str("wrongpass")}]

\* the view with the flag left out of the copy (undefined || false)
LoginViewNoFlag(user) ==
  [id |-> user.id,
   firstName |-> user.firstName,
   lastName |-> user.lastName,
   email |-> user.email,
   hasPreferences |-> FALSE]

\* the sanitized view a successful login returns
LoginView(user) ==
  [id |-> user.id,
   firstName |-> user.firstName,
   lastName |-> user.lastName,
   email |-> user.email,
   hasPreferences |-> user.hasPreferences \/ FALSE]

LoginOk(user) ==
  [op |-> "login", status |-> 200,
   body |-> [success |-> TRUE, message |-> MsgLoginOk, user |-> LoginView(user)]]

\* the response that tells an unknown email from a wrong password
LoginResponseTelling(body, data) ==
  LET i == FirstIndex([k \in 1..Len(data.users) |->
                          data.users[k].email = body.email])
  IN  IF i = 0 THEN Failure("login", 404, MsgUserNotFound)
      ELSE IF ~verifyPassword(body.password, data.users[i].password)
      THEN Failure("login", 401, MsgInvalidCredentials)
      ELSE [op |-> "login", status |-> 200,
            body |-> [success |-> TRUE, message |-> MsgLoginOk,
                      user |-> LoginView(data.users[i])]]

\* the response computed from the loaded data
LoginResponse(body, data) ==
  LET i == FirstIndex([k \in 1..Len(data.users) |->
                          data.users[k].email = body.email])
  IN  IF i = 0 \/ ~verifyPassword(body.password, data.users[i].password)
      THEN Failure("login", 401, MsgInvalidCredentials)
      ELSE LoginOk(data.users[i])

LoginResult(body, f) ==
  IF Falsy(body.email) \/ Falsy(body.password)
  THEN [res |-> Failure("login", 400, MsgMissingCredentials),
        file |-> f, load |-> NoLoad]
  ELSE LET rd == readUsers(f)
       IN  [res |-> LoginResponse(body, rd.data),
            file |-> rd.disk, load |-> LoadProbe(f, rd)]

Login(body) ==
  /\ started
  /\ \E r \in {LoginResult(body, file)} :
         /\ res' = r.res
         /\ file' = r.file
         /\ load' = r.load
  /\ UNCHANGED <<started, prefDone>>

(***************************************************************************)
(* POST /api/auth/preferences                                              *)
(***************************************************************************)
UserIds ==
  {Undefined, Str("2"), Str("1x"), Str("x")}
    \cup {Num(n) : n \in 0..(MaxUsers + 1)}

Payloads ==
  { [preferences |-> Arr(<<"vegan">>), dietaryRestrictions |-> Arr(<<"gluten-free">>),
     cuisineTypes |-> Arr(<<"italian">>), priceRange |-> Str("$$"), minRating |-> Num(4)],
    [preferences |-> Str("vegan"), dietaryRestrictions |-> Undefined,
     cuisineTypes |-> Arr(<<"thai">>), priceRange |-> Undefined, minRating |-> Num(0)] }

PreferencesBodies ==
  { [userId |-> id, preferences |-> p.preferences,
     dietaryRestrictions |-> p.dietaryRestrictions,
     cuisineTypes |-> p.cuisineTypes, priceRange |-> p.priceRange,
     minRating |-> p.minRating] : id \in UserIds, p \in Payloads }

\* Array.isArray(x) ? x : []
ArrayOrEmpty(x) == IF IsArray(x) THEN x ELSE Arr(<<>>)

\* the assignments with minRating ?? 3.0 for minRating || 3.0
UpdatedUserNullish(user, body) ==
  [user EXCEPT
     !.preferences = ArrayOrEmpty(body.preferences),
     !.dietaryRestrictions = ArrayOrEmpty(body.dietaryRestrictions),
     !.cuisineTypes = ArrayOrEmpty(body.cuisineTypes),
     !.priceRange = IF Falsy(body.priceRange) THEN Str("") ELSE body.priceRange,
     !.minRating = IF body.minRating = Undefined THEN Num(DefaultMinRating)
                   ELSE body.minRating,
     !.hasPreferences = TRUE]

\* the six assignments to data.users[userIndex]
UpdatedUser(user, body) ==
  [user EXCEPT
     !.preferences = ArrayOrEmpty(body.preferences),
     !.dietaryRestrictions = ArrayOrEmpty(body.dietaryRestrictions),
     !.cuisineTypes = ArrayOrEmpty(body.cuisineTypes),
     !.priceRange = IF Falsy(body.priceRange) THEN Str("") ELSE body.priceRange,
     !.minRating = IF Falsy(body.minRating) THEN Num(DefaultMinRating)
                   ELSE body.minRating,
     !.hasPreferences = TRUE]

\* data.users.findIndex(u => u.id === parseInt(userId))
IndexOfId(data, id) ==
  LET wanted == parseInt(id)
  IN  FirstIndex([k \in 1..Len(data.users) |-> wanted = <<data.users[k].id>>])

PreferencesOk(user) ==
  [op |-> "updatePreferences", status |-> 200,
   body |-> [success |-> TRUE, message |-> MsgPreferencesOk, user |-> user]]

\* the handler with the assignments made to every record
PreferencesResultAll(body, f) ==
  IF Falsy(body.userId)
  THEN [res |-> Failure("updatePreferences", 400, MsgMissingUserId),
        file |-> f, load |-> NoLoad]
  ELSE LET rd == readUsers(f)
           i == IndexOfId(rd.data, body.userId)
           data == [rd.data EXCEPT
                      !.users = [k \in 1..Len(rd.data.users) |->
                                   UpdatedUser(rd.data.users[k], body)]]
       IN  IF i = 0
           THEN [res |-> Failure("updatePreferences", 404, MsgUserNotFound),
                 file |-> rd.disk, load |-> LoadProbe(f, rd)]
           ELSE [res |-> PreferencesOk(data.users[i]),
                 file |-> writeUsers(data), load |-> LoadProbe(f, rd)]

PreferencesResult(body, f) ==
  IF Falsy(body.userId)
  THEN [res |-> Failure("updatePreferences", 400, MsgMissingUserId),
        file |-> f, load |-> NoLoad]
  ELSE LET rd == readUsers(f)
           i == IndexOfId(rd.data, body.userId)
           data == [rd.data EXCEPT
                      !.users[i] = UpdatedUser(rd.data.users[i], body)]
       IN  IF i = 0
           THEN [res |-> Failure("updatePreferences", 404, MsgUserNotFound),
                 file |-> rd.disk, load |-> LoadProbe(f, rd)]
           ELSE [res |-> PreferencesOk(data.users[i]),
                 file |-> writeUsers(data), load |-> LoadProbe(f, rd)]

UpdatePreferences(body) ==
  /\ started
  /\ \E r \in {PreferencesResult(body, file)} :
         /\ res' = r.res
         /\ file' = r.file
         /\ load' = r.load
         /\ prefDone' = IF r.res.body.success
                        THEN prefDone \cup {r.res.body.user.id}
                        ELSE prefDone
  /\ UNCHANGED started

(***************************************************************************)
(* GET /api/users/:id                                                      *)
(***************************************************************************)
\* req.params.id is always text
IdParams == {Str("1"), Str("2"), Str("3"), Str("4"), Str("1x"), Str("x")}

\* the record returned as it is stored
WithPassword(user) == user

\* const { password, ...userWithoutPassword } = user
WithoutPassword(user) == [k \in DOMAIN user \ {"password"} |-> user[k]]

GetUserResponse(id, data) ==
  LET i == IndexOfId(data, id)
  IN  IF i = 0
      THEN Failure("getUser", 404, MsgUserNotFound)
      ELSE [op |-> "getUser", status |-> 200,
            body |-> [success |-> TRUE, user |-> WithoutPassword(data.users[i])]]

GetUserResult(id, f) ==
  LET rd == readUsers(f)
  IN  [res |-> GetUserResponse(id, rd.data),
       file |-> rd.disk, load |-> LoadProbe(f, rd)]

GetUser(id) ==
  /\ started
  /\ \E r \in {GetUserResult(id, file)} :
         /\ res' = r.res
         /\ file' = r.file
         /\ load' = r.load
  /\ UNCHANGED <<started, prefDone>>

(***************************************************************************)
(* app.listen's callback, and the file system under the server.            *)
(***************************************************************************)
Start ==
  /\ ~started
  /\ started' = TRUE
  /\ file' = initializeUsersFile(file)
  /\ res' = [op |-> "start"]
  /\ load' = NoLoad
  /\ UNCHANGED prefDone

\* users.json is removed from under the running server; the records the
\* history was about are gone with it
RemoveFile ==
  /\ started
  /\ file' = Absent
  /\ res' = [op |-> "fault"]
  /\ load' = NoLoad
  /\ prefDone' = {}
  /\ UNCHANGED started

\* users.json is overwritten with text that is not JSON
CorruptFile ==
  /\ started
  /\ file' = Garbage
  /\ res' = [op |-> "fault"]
  /\ load' = NoLoad
  /\ prefDone' = {}
  /\ UNCHANGED started

Init ==
  /\ file = Absent
  /\ started = FALSE
  /\ res = [op |-> "none"]
  /\ load = NoLoad
  /\ prefDone = {}

Next ==
  \/ Start
  \/ \E body \in SignupBodies : Signup(body)
  \/ \E body \in LoginBodies : Login(body)
  \/ \E body \in PreferencesBodies : UpdatePreferences(body)
  \/ \E id \in IdParams : GetUser(id)

Spec == Init /\ [][Next]_vars

\* the same server on a file system that can lose or garble users.json, and
\* that may hold unparseable text before the first start
InitFaults ==
  /\ file \in {Absent, Garbage}
  /\ started = FALSE
  /\ res = [op |-> "none"]
  /\ load = NoLoad
  /\ prefDone = {}

NextFaults ==
  \/ Next
  \/ RemoveFile
  \/ CorruptFile

SpecFaults == InitFaults /\ [][NextFaults]_vars

(***************************************************************************)
(* Properties.                                                             *)
(***************************************************************************)
\* the records of the store on disk
StoredUsers == IF file.kind = "json" THEN file.doc.users ELSE <<>>

UsersOf(f) == IF f.kind = "json" THEN f.doc.users ELSE <<>>

IndicesWithEmail(email) ==
  {i \in 1..Len(StoredUsers) : StoredUsers[i].email = email}

\* C1: no two records of the store have the same email; a signup (one that
\* passes the checks on its body) whose email equals the email of a record
\* fails with EmailTaken, and any signup with such an email leaves the store
\* as it was, with exactly one record of that email.
C1_EmailUnique ==
  /\ \A i, j \in 1..Len(StoredUsers) :
       i # j => StoredUsers[i].email # StoredUsers[j].email
  /\ \A body \in SignupBodies : \A d \in Draws :
       IndicesWithEmail(body.email) # {} =>
         \E r \in {SignupResult(body, file, d)} :
           /\ ~r.res.body.success
           /\ body \in GoodSignupBodies =>
                r.res = Failure("signup", 400, MsgEmailTaken)
           /\ r.file = file
           /\ Cardinality(IndicesWithEmail(body.email)) = 1
  /\ (res.op = "signup" /\ res.body.message = MsgEmailTaken) =>
       /\ res.status = 400
       /\ ~res.body.success
       /\ load.called /\ load.untouched /\ load.count = Len(StoredUsers)

C1_Witness ==
  /\ res = Failure("signup", 400, MsgEmailTaken)
  /\ Len(StoredUsers) = 2

C3_NextIdAboveIds ==
  file.kind = "json" =>
    /\ \A i \in 1..Len(file.doc.users) : file.doc.users[i].id < file.doc.nextId
    /\ \A i, j \in 1..Len(file.doc.users) :
         i # j => file.doc.users[i].id # file.doc.users[j].id

C3_Witness == Len(StoredUsers) = 2 /\ file.doc.nextId = 3

\* The rules of C4 as the claim words them.  Which addresses match the
\* pattern is stated by listing them.
RuleNameEmpty(body) ==
  body.firstName \in {Undefined, Str("")} \/ body.lastName \in {Undefined, Str("")}

RuleEmailInvalid(body) == body.email \notin ValidEmails

RulePasswordWeak(body) ==
  body.password = Undefined \/ Len(body.password.v) < 8

RulePasswordMismatch(body) == body.password # body.confirmPassword

RuleEmailInStore(body) == IndicesWithEmail(body.email) # {}

ExpectedSignupMessage(body) ==
  IF RuleNameEmpty(body) THEN MsgInvalidName
  ELSE IF RuleEmailInvalid(body) THEN MsgInvalidEmail
  ELSE IF RulePasswordWeak(body) THEN MsgWeakPassword
  ELSE IF RulePasswordMismatch(body) THEN MsgPasswordMismatch
  ELSE IF RuleEmailInStore(body) THEN MsgEmailTaken
  ELSE ""

\* C4: signup answers with the failure of the first violated rule in the
\* order InvalidName, InvalidEmail, WeakPassword, PasswordMismatch,
\* EmailTaken, and succeeds only when no rule is violated; a password of
\* length 7 is rejected and one of length 8 is accepted.
C4_ValidationOrder ==
  started => \A body \in SignupBodies : \A d \in Draws :
    \E r \in {SignupResult(body, file, d).res} :
      /\ IF ExpectedSignupMessage(body) = ""
         THEN r.body.success /\ r.status = 201
         ELSE r = Failure("signup", 400, ExpectedSignupMessage(body))
      /\ (body.password # Undefined /\ Len(body.password.v) = 7) =>
           ~r.body.success
      /\ (body \in GoodSignupBodies /\ Len(body.password.v) = 8
            /\ ~RuleEmailInStore(body)) => r.body.success

C4_Witness ==
  /\ res = Failure("signup", 400, MsgWeakPassword)
  /\ Len(StoredUsers) = 1

\* the plaintext a stored hash was made from
PlainOf(hash) == hash.digest[2]

TruthyLoginBodies ==
  {b \in LoginBodies : b.email # Undefined /\ b.password # Undefined}

\* C5: a login with the email of a record and a password that does not
\* match it gets the same failure (status and body) as a login with a
\* non-empty password and an email no record has.
C5_LoginDoesNotLeak ==
  started => \A known \in TruthyLoginBodies : \A unknown \in TruthyLoginBodies :
    ( /\ \E i \in IndicesWithEmail(known.email) :
            PlainOf(StoredUsers[i].password) # known.password.v
      /\ IndicesWithEmail(unknown.email) = {} )
    => /\ LoginResult(known, file).res = LoginResult(unknown, file).res
       /\ LoginResult(known, file).res.status = 401
       /\ ~LoginResult(known, file).res.body.success

C5_Witness ==
  /\ res = Failure("login", 401, MsgInvalidCredentials)
  /\ Len(StoredUsers) = 1

SecretFields == {"password", "passwordHash"}

NoSecretField(body) ==
  /\ DOMAIN body \cap SecretFields = {}
  /\ "user" \in DOMAIN body => DOMAIN body.user \cap SecretFields = {}

\* C6: no response of getUser or login, success or failure, has a password
\* or passwordHash field, at the top or inside its user.
C6_NoPasswordInResponses ==
  /\ started =>
       \A body \in LoginBodies : NoSecretField(LoginResult(body, file).res.body)
  /\ started =>
       \A id \in IdParams : NoSecretField(GetUserResult(id, file).res.body)
  /\ res.op \in {"login", "getUser"} => NoSecretField(res.body)

C6_Witness ==
  /\ res.op = "getUser" /\ res.body.success
  /\ res.body.user.id = 2
  /\ StoredUsers[2].password.salt \in {"saltA", "saltB"}

\* the record the last preferences update addressed, as stored after it
RecordWithId(f, id) ==
  UsersOf(f)[CHOOSE i \in 1..Len(UsersOf(f)) : UsersOf(f)[i].id = id]

Supplied(x) == x # Undefined

\* the tag field as C7 words it
TagAsClaimed(x) == IF x.t = "arr" THEN x ELSE Arr(<<>>)

\* C7 as stated: every supplied priceRange and minRating is stored as it is.
C7AsStated(body, u) ==
  /\ u.hasPreferences = TRUE
  /\ u.preferences = TagAsClaimed(body.preferences)
  /\ u.dietaryRestrictions = TagAsClaimed(body.dietaryRestrictions)
  /\ u.cuisineTypes = TagAsClaimed(body.cuisineTypes)
  /\ Supplied(body.priceRange) => u.priceRange = body.priceRange
  /\ Supplied(body.minRating) => u.minRating = body.minRating

\* C7 as the code has it: an absent or falsy priceRange is stored as the
\* empty text, an absent or falsy minRating (0 is one) as 3.0.
C7AsAmended(body, u) ==
  /\ u.hasPreferences = TRUE
  /\ u.preferences = TagAsClaimed(body.preferences)
  /\ u.dietaryRestrictions = TagAsClaimed(body.dietaryRestrictions)
  /\ u.cuisineTypes = TagAsClaimed(body.cuisineTypes)
  /\ u.priceRange =
       IF body.priceRange \in {Undefined, Str(""), Num(0)} THEN Str("")
       ELSE body.priceRange
  /\ u.minRating =
       IF body.minRating \in {Undefined, Str(""), Num(0)} THEN Num(3)
       ELSE body.minRating

SameIdentity(u, v) ==
  /\ u.id = v.id
  /\ u.email = v.email
  /\ u.createdAt = v.createdAt
  /\ u.password = v.password

PreferenceFields ==
  {"preferences", "dietaryRestrictions", "cuisineTypes", "priceRange",
   "minRating", "hasPreferences"}

\* C10: every step keeps each record's id, email, createdAt and password
\* hash and the order of the records; a successful updatePreferences changes
\* only the preference fields and hasPreferences of the addressed record and
\* keeps nextId; login, getUser and every failing operation keep the store.
C10_Frame ==
  [][/\ Len(UsersOf(file)) <= Len(UsersOf(file'))
     /\ \A i \in 1..Len(UsersOf(file)) :
          SameIdentity(UsersOf(file)[i], UsersOf(file')[i])
     /\ (res'.op = "updatePreferences" /\ res'.body.success) =>
          /\ file'.doc.nextId = file.doc.nextId
          /\ Len(file'.doc.users) = Len(file.doc.users)
          /\ \A i \in 1..Len(file.doc.users) :
               /\ file.doc.users[i].id # res'.body.user.id =>
                    file'.doc.users[i] = file.doc.users[i]
               /\ \A k \in DOMAIN file.doc.users[i] \ PreferenceFields :
                    file'.doc.users[i][k] = file.doc.users[i][k]
               /\ DOMAIN file'.doc.users[i] = DOMAIN file.doc.users[i]
     /\ (res'.op \in {"login", "getUser"}) => file' = file
     /\ (res'.op \in {"signup", "login", "updatePreferences", "getUser"}
           /\ ~res'.body.success) => file' = file]_vars

C10_Witness ==
  /\ res.op = "updatePreferences" /\ res.body.success
  /\ Len(StoredUsers) = 2
  /\ StoredUsers[1].hasPreferences /\ StoredUsers[2].hasPreferences
  /\ StoredUsers[1].createdAt # StoredUsers[2].createdAt

\* C9 (as stated): the load never raises; finding no file it returns the
\* empty default and persists it, so that the file then exists and holds the
\* default; finding unparseable text it returns the empty default and leaves
\* the file as it is.
C9_LoadPersistsDefault ==
  load.called =>
    /\ load.found = "absent" =>
         load.count = 0 /\ load.nextId = 1 /\ load.left = "json"
    /\ load.found = "garbage" =>
         load.count = 0 /\ load.nextId = 1 /\ load.untouched

\* C9 (amended): the load never raises and never writes; finding no file,
\* or unparseable text, it returns the empty default and leaves the disk as
\* it found it.  The default is persisted for a missing file only by the
\* initialisation at server start.
C9_LoadFailsSoft ==
  /\ load.called =>
       /\ load.untouched /\ load.left = load.found
       /\ load.found \in {"absent", "garbage"} =>
            load.count = 0 /\ load.nextId = 1
  /\ res.op = "start" => file \in {JsonStringify(EmptyStore), Garbage}
  /\ (res.op \in {"login", "getUser"} /\ load.called) =>
       file.kind = load.found

C9_Witness ==
  /\ load.called /\ load.found = "absent"
  /\ res.op = "login" /\ file = Absent

====
